---- MODULE Spec2Model ----
(***************************************************************************)
(* Model of src/viewer.rs of vsvg: the Viewer (an eframe::App) and         *)
(* Document::show.  One Update step is one call of Viewer::update by the   *)
(* host: the menu bar first, then the canvas.                              *)
(***************************************************************************)
EXTENDS Integers, Sequences, FiniteSets, TLC

\* Bounds of the documents the model is run on.
MaxLayers == 2
MaxPaths == 2
MaxPts == 3

\* const SHADOW_OFFSET: f64 = 10.;
SHADOW_OFFSET == 10

VARIABLES
    flattened,          \* self.flatten(tolerance), the polylines of the source Document
    self_page_size,     \* self.page_size of the source Document
    phase,              \* "show" | "running" | "failed" | "closed": where Document::show is
    result,             \* "pending" | "Ok" | "Err": what Document::show returned
    document,           \* Viewer.document
    page_size,          \* Viewer.page_size
    show_point,         \* Viewer.show_point
    show_grid,          \* Viewer.show_grid
    layer_visibility,   \* Viewer.layer_visibility, a map LayerID -> bool
    close_requested,    \* frame.close() has been called
    menu_out,           \* the menu and widgets the menu bar showed in the last frame
    frame_out,          \* what the last frame gave the plot: grid spacers and plot items
    rt,                 \* history: the items of the last frame rendered with show_point off
    total_vis           \* reference: a total visibility map, true for every layer at construction

vars == <<flattened, self_page_size, phase, result, document, page_size, show_point,
          show_grid, layer_visibility, close_requested, menu_out, frame_out, rt,
          total_vis>>

----------------------------------------------------------------------------
\* Option<T>
None == [tag |-> "None"]
Some(v) == [tag |-> "Some", val |-> v]

\* HashMap::get
Get(map, k) == IF k \in DOMAIN map THEN Some(map[k]) ELSE None

\* Option::unwrap_or
UnwrapOr(opt, default) == IF opt = None THEN default ELSE opt.val

\* Variant of OrInsert: the inserted entry is the negation of the default
OrInsert_Negated(map, k, v) == IF k \in DOMAIN map THEN map ELSE map @@ (k :> ~v)

\* Variant of OrInsert: HashMap::insert(k, v), which overwrites an entry
OrInsert_Overwrite(map, k, v) ==
    [x \in DOMAIN map \cup {k} |-> IF x = k THEN v ELSE map[x]]

\* HashMap::entry(k).or_insert(v): the map afterwards
OrInsert(map, k, v) == IF k \in DOMAIN map THEN map ELSE map @@ (k :> v)

\* The empty HashMap
EmptyMap == [k \in {} |-> TRUE]

----------------------------------------------------------------------------
\* `x as f32` for a non-negative integer-valued f64 below 2^31: round to a
\* 24-bit significand, ties to even.
RECURSIVE Ulp(_)
Ulp(n) == IF n < 16777216 THEN 1 ELSE 2 * Ulp(n \div 2)

AsF32(n) ==
    LET q == Ulp(n)
        m == n \div q
        rem == n - m * q
    IN  IF 2 * rem < q THEN m * q
        ELSE IF 2 * rem > q THEN (m + 1) * q
        ELSE IF m % 2 = 0 THEN m * q ELSE (m + 1) * q

\* impl From<Color> for Color32: Color32::from_rgba_unmultiplied(r, g, b, a).
\* Opaque colours are kept, fully transparent ones become Color32::TRANSPARENT;
\* the model's documents use no other alpha.
From_Color(val) ==
    CASE val.a = 255 -> [r |-> val.r, g |-> val.g, b |-> val.b, a |-> 255]
      [] val.a = 0 -> [r |-> 0, g |-> 0, b |-> 0, a |-> 0]

\* Color32::from_rgb
From_rgb(r, g, b) == [r |-> r, g |-> g, b |-> b, a |-> 255]

\* Color32::WHITE
WHITE == From_rgb(255, 255, 255)

----------------------------------------------------------------------------
\* The documents and page sizes Document::show is run on.
LayerIDs == 1 .. MaxLayers

NPts(l, k) == (l + k) % (MaxPts + 1)

PathColor(l, k) ==
    [r |-> 50 * l, g |-> 40 * k, b |-> 7, a |-> IF (l + 2 * k) % 3 = 0 THEN 0 ELSE 255]

\* Stroke widths: small ones, and ones that are not f32 values.
PathWidth(l, k) == IF (l + k) % 2 = 0 THEN k ELSE 16777215 + 2 * k

\* Path k of layer l before the y-flip (y down, inside the page).
FlatPath(l, k) ==
    [data |-> [j \in 1 .. NPts(l, k) |-> <<10 * l + j, 5 * k + j>>],
     color |-> PathColor(l, k),
     stroke_width |-> PathWidth(l, k)]

FlatLayer(l, n) == [paths |-> [k \in 1 .. n |-> FlatPath(l, k)]]

\* The layer ids of a document, in document order: sequences without repetition.
Orderings ==
    {ord \in UNION {[1 .. n -> LayerIDs] : n \in 0 .. MaxLayers} :
        \A i, j \in DOMAIN ord : i # j => ord[i] # ord[j]}

FlatDocs ==
    {[layers |-> [p \in 1 .. Len(ord) |->
                    [lid |-> ord[p],
                     layer |-> FlatLayer(ord[p], (ord[p] + s) % (MaxPaths + 1))]]] :
        ord \in Orderings, s \in 0 .. MaxPaths}

PageSizes == {None, Some([w |-> 100, h |-> 50]), Some([w |-> 2, h |-> 3])}

\* FlattenedDocument::scale_non_uniform(sx, sy)
ScaleNonUniform(doc, sx, sy) ==
    [layers |-> [p \in 1 .. Len(doc.layers) |->
        [lid |-> doc.layers[p].lid,
         layer |-> [paths |-> [k \in 1 .. Len(doc.layers[p].layer.paths) |->
            LET path == doc.layers[p].layer.paths[k]
            IN  [path EXCEPT !.data =
                    [j \in 1 .. Len(path.data) |->
                        <<sx * path.data[j][1], sy * path.data[j][2]>>]]]]]]]

\* Variant of Polylines: the flattened document handed over without the y-flip
Polylines_NoFlip(flat) == ScaleNonUniform(flat, 1, 1)

\* let polylines = self.flatten(tolerance).scale_non_uniform(1.0, -1.0)
Polylines(flat) == ScaleNonUniform(flat, 1, -1)

\* #[derive(Default)] for FlattenedDocument
EmptyDocument == [layers |-> <<>>]

\* self.document.layers.keys()
Keys(doc) == [p \in 1 .. Len(doc.layers) |-> doc.layers[p].lid]

----------------------------------------------------------------------------
\* The Viewer as one value
Self ==
    [document |-> document, page_size |-> page_size, show_point |-> show_point,
     show_grid |-> show_grid, layer_visibility |-> layer_visibility]

\* Variant of Viewer_new: the grid shown from the start
Viewer_new_GridOn(doc, ps) ==
    [document |-> doc, page_size |-> ps, show_point |-> FALSE,
     show_grid |-> TRUE, layer_visibility |-> EmptyMap]

\* Viewer::new
Viewer_new(doc, ps) ==
    [document |-> doc, page_size |-> ps, show_point |-> FALSE,
     show_grid |-> FALSE, layer_visibility |-> EmptyMap]

----------------------------------------------------------------------------
\* What the user does in a frame: the menu that is open (the host keeps at most
\* one open) and the widget of it that is clicked, if any.
NoClick == [w |-> "none"]
QuitClick == [w |-> "Quit"]
ShowPointClick == [w |-> "show_point"]
ShowGridClick == [w |-> "show_grid"]
LayerClick(lid) == [w |-> "layer", lid |-> lid]

Inputs(doc) ==
    {[menu |-> "none", click |-> NoClick]}
    \cup {[menu |-> "File", click |-> c] : c \in {NoClick, QuitClick}}
    \cup {[menu |-> "View", click |-> c] : c \in {NoClick, ShowPointClick, ShowGridClick}}
    \cup {[menu |-> "Layer", click |-> c] :
            c \in {NoClick} \cup {LayerClick(Keys(doc)[p]) : p \in 1 .. Len(doc.layers)}}

\* ui.checkbox(&mut checked, label): the value afterwards
Checkbox(checked, clicked) == IF clicked THEN ~checked ELSE checked

\* ui.button(text) as the menu shows it; clicked is its Response::clicked()
Button(text, clicked) == [widget |-> "button", text |-> text, clicked |-> clicked]

\* ui.checkbox(&mut checked, text) as the menu shows it, checked being the value afterwards
CheckboxWidget(text, checked, clicked) ==
    [widget |-> "checkbox", text |-> text, checked |-> checked, clicked |-> clicked]

\* What the menu bar shows in a frame: the open menu and its widgets
Shown(menu, widgets) == [menu |-> menu, widgets |-> widgets]

\* format!("Layer {}", lid)
LayerLabel(lid) == <<"Layer ", lid>>

\* The File menu
FileMenu(self, click) ==
    [self |-> self,
     close |-> (click = QuitClick),
     shown |-> Shown("File", <<Button("Quit", click = QuitClick)>>)]

\* Variant of ViewMenu: both checkboxes bound to show_point
ViewMenu_BothOnShowPoint(self, click) ==
    LET sp == Checkbox(Checkbox(self.show_point, click = ShowPointClick),
                       click = ShowGridClick)
    IN  [self |-> [self EXCEPT !.show_point = sp],
         close |-> FALSE,
         shown |-> Shown("View", <<CheckboxWidget("Show points", sp, click = ShowPointClick),
                                   CheckboxWidget("Show grid", sp, click = ShowGridClick)>>)]

\* The View menu
ViewMenu(self, click) ==
    LET sp == Checkbox(self.show_point, click = ShowPointClick)
        sg == Checkbox(self.show_grid, click = ShowGridClick)
    IN  [self |-> [self EXCEPT !.show_point = sp, !.show_grid = sg],
         close |-> FALSE,
         shown |-> Shown("View", <<CheckboxWidget("Show points", sp, click = ShowPointClick),
                                   CheckboxWidget("Show grid", sg, click = ShowGridClick)>>)]

\* The Layer menu: the loop over self.document.layers.keys(), from key p on
RECURSIVE LayerLoop(_, _, _, _, _)
LayerLoop(keys, p, vis, click, widgets) ==
    IF p > Len(keys) THEN [vis |-> vis, widgets |-> widgets]
    ELSE LET lid == keys[p]
             inserted == OrInsert(vis, lid, TRUE)
             visibility == Checkbox(inserted[lid], click = LayerClick(lid))
         IN  LayerLoop(keys, p + 1, [inserted EXCEPT ![lid] = visibility], click,
                       Append(widgets, CheckboxWidget(LayerLabel(lid), visibility,
                                                      click = LayerClick(lid))))

LayerMenu(self, click) ==
    LET r == LayerLoop(Keys(self.document), 1, self.layer_visibility, click, <<>>)
    IN  [self |-> [self EXCEPT !.layer_visibility = r.vis],
         close |-> FALSE,
         shown |-> Shown("Layer", r.widgets)]

\* The menu bar of update
MenuBar(self, inp) ==
    CASE inp.menu = "File" -> FileMenu(self, inp.click)
      [] inp.menu = "View" -> ViewMenu(self, inp.click)
      [] inp.menu = "Layer" -> LayerMenu(self, inp.click)
      [] OTHER -> [self |-> self, close |-> FALSE, shown |-> Shown("none", <<>>)]

----------------------------------------------------------------------------
\* Plot items.  src names the path a line or a set of points was built from.
Polygon(pts, color, fill_alpha) ==
    [kind |-> "polygon", pts |-> pts, color |-> color, fill_alpha |-> fill_alpha]

Line(pts, color, width, src) ==
    [kind |-> "line", pts |-> pts, color |-> color, width |-> width, src |-> src]

Points(pts, color, radius, src) ==
    [kind |-> "points", pts |-> pts, color |-> color, radius |-> radius, src |-> src]

\* The page rectangle
PageFrame(ps) == <<<<0, 0>>, <<ps.w, 0>>, <<ps.w, -ps.h>>, <<0, -ps.h>>>>

\* Variant of Shadow: the offset left out
Shadow_NoOffset(page_frame) == Polygon(page_frame, From_rgb(180, 180, 180), 1)

Shadow(page_frame) ==
    Polygon([i \in 1 .. Len(page_frame) |->
                <<page_frame[i][1] + SHADOW_OFFSET, page_frame[i][2] - SHADOW_OFFSET>>],
            From_rgb(180, 180, 180), 1)

Background(page_frame) == Polygon(page_frame, WHITE, 1)

FrameOutline(page_frame) == Polygon(page_frame, From_rgb(128, 128, 128), 0)

\* Variant of PageItems: a page of size zero drawn when there is no page size
PageItems_AlwaysDrawn(ps) ==
    LET page_frame == PageFrame(IF ps = None THEN [w |-> 0, h |-> 0] ELSE ps.val)
    IN  <<Shadow(page_frame), Background(page_frame), FrameOutline(page_frame)>>

\* if let Some(page_size) = self.page_size { ... }
PageItems(ps) ==
    IF ps = None THEN <<>>
    ELSE LET page_frame == PageFrame(ps.val)
         IN  <<Shadow(page_frame), Background(page_frame), FrameOutline(page_frame)>>

\* Variant of MarkerRadius: the stroke width itself
MarkerRadius_StrokeWidth(path) == AsF32(path.stroke_width)

\* The radius of a path's point markers
MarkerRadius(path) == AsF32(path.stroke_width) * 2

\* Variant of PathItems: with show_point on, the points drawn instead of the line
PathItems_PointsReplaceLine(self, lid, k, path) ==
    IF self.show_point
    THEN <<Points(path.data, From_Color(path.color), AsF32(path.stroke_width) * 2, <<lid, k>>)>>
    ELSE <<Line(path.data, From_Color(path.color), AsF32(path.stroke_width), <<lid, k>>)>>

\* Variant of PathItems: the points of a path drawn before its line
PathItems_PointsFirst(self, lid, k, path) ==
    (IF self.show_point
     THEN <<Points(path.data, From_Color(path.color), AsF32(path.stroke_width) * 2, <<lid, k>>)>>
     ELSE <<>>)
    \o <<Line(path.data, From_Color(path.color), AsF32(path.stroke_width), <<lid, k>>)>>

\* What one path adds to the plot
PathItems(self, lid, k, path) ==
    <<Line(path.data, From_Color(path.color), AsF32(path.stroke_width), <<lid, k>>)>>
    \o (IF self.show_point
        THEN <<Points(path.data, From_Color(path.color), MarkerRadius(path), <<lid, k>>)>>
        ELSE <<>>)

\* for path in layer.paths.iter(), from path k on
RECURSIVE PathLoop(_, _, _, _)
PathLoop(self, lid, layer, k) ==
    IF k > Len(layer.paths) THEN <<>>
    ELSE PathItems(self, lid, k, layer.paths[k]) \o PathLoop(self, lid, layer, k + 1)

\* Variant of IsVisible: no layer is skipped
IsVisible_NoSkip(vis, i) == TRUE

\* Variant of IsVisible: a layer without entry counts as hidden
IsVisible_DefaultHidden(vis, i) == UnwrapOr(Get(vis, i), FALSE)

\* self.layer_visibility.get(&i).unwrap_or(&true)
IsVisible(vis, i) == UnwrapOr(Get(vis, i), TRUE)

\* for (i, layer) in self.document.layers.iter(), from layer p on
RECURSIVE LayerItems(_, _)
LayerItems(self, p) ==
    IF p > Len(self.document.layers) THEN <<>>
    ELSE LET i == self.document.layers[p].lid
             layer == self.document.layers[p].layer
         IN  (IF ~IsVisible(self.layer_visibility, i) THEN <<>>
              ELSE PathLoop(self, i, layer, 1))
             \o LayerItems(self, p + 1)

\* x_grid_spacer / y_grid_spacer of the plot
GridSpacer(sg) == IF ~sg THEN "empty" ELSE "default"

\* Variant of Canvas: only the x axis loses its grid lines
Canvas_XGridOnly(self) ==
    [x_grid_spacer |-> GridSpacer(self.show_grid),
     y_grid_spacer |-> "default",
     items |-> PageItems(self.page_size) \o LayerItems(self, 1)]

\* Variant of Canvas: the page drawn after the layers
Canvas_PageOnTop(self) ==
    [x_grid_spacer |-> GridSpacer(self.show_grid),
     y_grid_spacer |-> GridSpacer(self.show_grid),
     items |-> LayerItems(self, 1) \o PageItems(self.page_size)]

\* The central panel of update
Canvas(self) ==
    [x_grid_spacer |-> GridSpacer(self.show_grid),
     y_grid_spacer |-> GridSpacer(self.show_grid),
     items |-> PageItems(self.page_size) \o LayerItems(self, 1)]

\* Variant of UpdateFrame: the page size taken out of the Viewer when it is drawn
UpdateFrame_TakesPageSize(self, inp) ==
    LET m == MenuBar(self, inp)
    IN  [self |-> [m.self EXCEPT !.page_size = None], close |-> m.close,
         shown |-> m.shown, out |-> Canvas(m.self)]

\* Variant of UpdateFrame: the render loop looks visibility up with
\* entry(i).or_insert(true), which inserts the missing entries
UpdateFrame_RenderInserts(self, inp) ==
    LET m == MenuBar(self, inp)
        keys == Keys(m.self.document)
        filled == [lid \in DOMAIN m.self.layer_visibility
                            \cup {keys[p] : p \in 1 .. Len(keys)} |->
                    IsVisible(m.self.layer_visibility, lid)]
    IN  [self |-> [m.self EXCEPT !.layer_visibility = filled], close |-> m.close,
         shown |-> m.shown, out |-> Canvas(m.self)]

\* Variant of UpdateFrame: the canvas rendered before the menu bar
UpdateFrame_CanvasFirst(self, inp) ==
    LET m == MenuBar(self, inp)
    IN  [self |-> m.self, close |-> m.close, shown |-> m.shown, out |-> Canvas(self)]

\* Viewer::update: the menu bar, then the canvas
UpdateFrame(self, inp) ==
    LET m == MenuBar(self, inp)
    IN  [self |-> m.self, close |-> m.close, shown |-> m.shown, out |-> Canvas(m.self)]

----------------------------------------------------------------------------
NoFrame == [x_grid_spacer |-> "unset", y_grid_spacer |-> "unset", items |-> <<>>]

RtIdle == [stage |-> "idle", items |-> <<>>]

\* The history of the show_point round trip.  After a frame rendered with show_point
\* off it holds that frame's items ("armed"); after a following frame in which only the
\* show_point checkbox was clicked it still holds them ("enabled"); when the frame after
\* that again only clicks the checkbox, the round trip is complete ("restored").
RtNext(old, inp, f) ==
    LET only_show_point == inp = [menu |-> "View", click |-> ShowPointClick]
    IN  IF ~f.self.show_point
        THEN [stage |-> IF old.stage = "enabled" /\ only_show_point
                        THEN "restored" ELSE "armed",
              items |-> f.out.items]
        ELSE IF old.stage \in {"armed", "restored"} /\ only_show_point
             THEN [stage |-> "enabled", items |-> old.items]
             ELSE RtIdle

\* The reference model of layer visibility: a map that is total from construction,
\* true for every layer of the document, and in which the click on the checkbox of a
\* layer flips the value of the layer; nothing is ever inserted.
TotalInit(doc) == [lid \in {doc.layers[p].lid : p \in 1 .. Len(doc.layers)} |-> TRUE]

TotalNext(total, inp) ==
    IF inp.menu = "Layer" /\ inp.click # NoClick
    THEN [total EXCEPT ![inp.click.lid] = ~@]
    ELSE total

\* Variant of ShowReturn: the error of run_native dropped
ShowReturn_ErrorDropped(run_native) == "Ok"

\* The Result Document::show returns for what eframe::run_native returned
ShowReturn(run_native) == IF run_native = "Err" THEN "Err" ELSE "Ok"

Init ==
    /\ flattened \in FlatDocs
    /\ self_page_size \in PageSizes
    /\ phase = "show"
    /\ result = "pending"
    /\ document = EmptyDocument
    /\ page_size = None
    /\ show_point = FALSE
    /\ show_grid = FALSE
    /\ layer_visibility = EmptyMap
    /\ close_requested = FALSE
    /\ menu_out = Shown("none", <<>>)
    /\ frame_out = NoFrame
    /\ rt = RtIdle
    /\ total_vis = EmptyMap

\* eframe::run_native fails to set up the window or the graphics context
RunNativeErr ==
    /\ phase = "show"
    /\ phase' = "failed"
    /\ result' = ShowReturn("Err")
    /\ UNCHANGED <<flattened, self_page_size, document, page_size, show_point, show_grid,
                   layer_visibility, close_requested, menu_out, frame_out, rt,
                   total_vis>>

\* eframe::run_native starts the session and calls the app creator
RunNativeStart ==
    /\ phase = "show"
    /\ phase' = "running"
    /\ LET v == Viewer_new(Polylines(flattened), self_page_size)
       IN  /\ document' = v.document
           /\ page_size' = v.page_size
           /\ show_point' = v.show_point
           /\ show_grid' = v.show_grid
           /\ layer_visibility' = v.layer_visibility
    /\ total_vis' = TotalInit(Polylines(flattened))
    /\ UNCHANGED <<flattened, self_page_size, result, close_requested, menu_out,
                   frame_out, rt>>

\* The host calls Viewer::update for one frame
Update ==
    /\ phase = "running"
    /\ ~close_requested
    /\ \E inp \in Inputs(document) :
        LET f == UpdateFrame(Self, inp)
        IN  /\ document' = f.self.document
            /\ page_size' = f.self.page_size
            /\ show_point' = f.self.show_point
            /\ show_grid' = f.self.show_grid
            /\ layer_visibility' = f.self.layer_visibility
            /\ close_requested' = f.close
            /\ menu_out' = f.shown
            /\ frame_out' = f.out
            /\ rt' = RtNext(rt, inp, f)
            /\ total_vis' = TotalNext(total_vis, inp)
    /\ UNCHANGED <<flattened, self_page_size, phase, result>>

\* The window closes (on the Quit request or closed by the user); run_native returns
WindowClose ==
    /\ phase = "running"
    /\ phase' = "closed"
    /\ result' = ShowReturn("Ok")
    /\ UNCHANGED <<flattened, self_page_size, document, page_size, show_point, show_grid,
                   layer_visibility, close_requested, menu_out, frame_out, rt,
                   total_vis>>

Next == RunNativeErr \/ RunNativeStart \/ Update \/ WindowClose

Spec == Init /\ [][Next]_vars

----------------------------------------------------------------------------
(* Vocabulary of the properties *)

\* A frame has been rendered
Rendered == frame_out # NoFrame

\* A step that is a call of update
UpdateStep == phase = "running" /\ phase' = "running"

\* The items of the last frame
Items == frame_out.items

IsPolygon(it) == it.kind = "polygon"
IsLine(it) == it.kind = "line"
IsPoints(it) == it.kind = "points"

\* The layers of the Viewer's document, by position
LayerPos == 1 .. Len(document.layers)

\* The entry of lid in layer_visibility is explicitly false
ExplicitlyHidden(lid) == lid \in DOMAIN layer_visibility /\ layer_visibility[lid] = FALSE

\* lid has no entry in layer_visibility
NoEntry(lid) == lid \notin DOMAIN layer_visibility

\* The lines, and the point sets, of the last frame built from the paths of layer lid
LinesOf(lid) == SelectSeq(Items, LAMBDA it : IsLine(it) /\ it.src[1] = lid)
PointSetsOf(lid) == SelectSeq(Items, LAMBDA it : IsPoints(it) /\ it.src[1] = lid)

\* The line the renderer is to draw for path k of the layer at position p
LineFor(p, k) ==
    LET path == document.layers[p].layer.paths[k]
    IN  [kind |-> "line", pts |-> path.data, color |-> From_Color(path.color),
         width |-> AsF32(path.stroke_width), src |-> <<document.layers[p].lid, k>>]

\* C1: a layer whose layer_visibility entry is explicitly false contributes no line
\* and no point set to the frame, whatever show_point, show_grid and page_size are;
\* every path of every other layer still has its line in the frame.
C1_HiddenLayerNotDrawn ==
    Rendered =>
        \A p \in LayerPos :
            LET lid == document.layers[p].lid
                paths == document.layers[p].layer.paths
            IN  IF ExplicitlyHidden(lid)
                THEN LinesOf(lid) = <<>> /\ PointSetsOf(lid) = <<>>
                ELSE Len(LinesOf(lid)) = Len(paths)

\* A frame with points shown and a page in which one layer with paths is hidden and
\* another one is drawn
C1_Witness ==
    /\ Rendered /\ show_point /\ page_size # None
    /\ \E p, q \in LayerPos :
        /\ ExplicitlyHidden(document.layers[p].lid)
        /\ Len(document.layers[p].layer.paths) > 0
        /\ ~ExplicitlyHidden(document.layers[q].lid)
        /\ LinesOf(document.layers[q].lid) # <<>>

\* C2: a layer with no entry in layer_visibility is rendered as visible: the frame
\* holds one line per path of the layer, in path order, and the missing entry makes
\* neither the frame nor Document::show fail.
C2_MissingEntryIsVisible ==
    Rendered =>
        \A p \in LayerPos :
            LET lid == document.layers[p].lid
                paths == document.layers[p].layer.paths
            IN  NoEntry(lid) =>
                    /\ LinesOf(lid) = [k \in 1 .. Len(paths) |-> LineFor(p, k)]
                    /\ phase # "failed" /\ result # "Err"

\* A frame drawing the two paths of a layer that has no entry
C2_Witness ==
    /\ Rendered /\ show_grid
    /\ \E p \in LayerPos :
        /\ NoEntry(document.layers[p].lid)
        /\ Len(LinesOf(document.layers[p].lid)) >= 2

\* The three page-frame polygons of a page w x h
ExpectedShadow(w, h) ==
    [kind |-> "polygon",
     pts |-> <<<<10, -10>>, <<w + 10, -10>>, <<w + 10, -h - 10>>, <<10, -h - 10>>>>,
     color |-> [r |-> 180, g |-> 180, b |-> 180, a |-> 255], fill_alpha |-> 1]

ExpectedBackground(w, h) ==
    [kind |-> "polygon", pts |-> <<<<0, 0>>, <<w, 0>>, <<w, -h>>, <<0, -h>>>>,
     color |-> [r |-> 255, g |-> 255, b |-> 255, a |-> 255], fill_alpha |-> 1]

ExpectedFrame(w, h) ==
    [kind |-> "polygon", pts |-> <<<<0, 0>>, <<w, 0>>, <<w, -h>>, <<0, -h>>>>,
     color |-> [r |-> 128, g |-> 128, b |-> 128, a |-> 255], fill_alpha |-> 0]

\* C3: with page_size = Some((w, h)), w, h > 0, the frame holds exactly three polygons,
\* and they are its first three items: the shadow, the background, the frame outline.
C3_PageFrameThreePolygons ==
    (Rendered /\ page_size # None /\ page_size.val.w > 0 /\ page_size.val.h > 0) =>
        LET w == page_size.val.w
            h == page_size.val.h
        IN  /\ Len(Items) >= 3
            /\ SubSeq(Items, 1, 3) =
                <<ExpectedShadow(w, h), ExpectedBackground(w, h), ExpectedFrame(w, h)>>
            /\ Len(SelectSeq(Items, IsPolygon)) = 3

\* A frame of a document with a page, drawing lines and points of a layer while
\* another layer is hidden
C3_Witness ==
    /\ Rendered /\ page_size = Some([w |-> 100, h |-> 50]) /\ show_point /\ show_grid
    /\ Len(Items) > 3
    /\ \E p \in LayerPos : ExplicitlyHidden(document.layers[p].lid)

\* C4: with page_size = None no frame holds a polygon.
C4_NoPageNoPolygon ==
    (Rendered /\ page_size = None) => SelectSeq(Items, IsPolygon) = <<>>

\* A frame without page that draws lines and points, with the grid on
C4_Witness ==
    /\ Rendered /\ page_size = None /\ show_point /\ show_grid
    /\ \E i \in 1 .. Len(Items) : IsPoints(Items[i])
    /\ \E p \in LayerPos : ExplicitlyHidden(document.layers[p].lid)

RECURSIVE SumSeq(_)
SumSeq(ns) == IF ns = <<>> THEN 0 ELSE Head(ns) + SumSeq(Tail(ns))

\* The point sets of the last frame, and the number of markers they hold: the plot
\* draws one marker (a filled circle) per point of a point set
PointSets == SelectSeq(Items, IsPoints)
MarkerCount == SumSeq([i \in 1 .. Len(PointSets) |-> Len(PointSets[i].pts)])

\* The number of points of all paths of the layers that are not hidden
VisiblePointCount ==
    SumSeq([p \in LayerPos |->
        IF ExplicitlyHidden(document.layers[p].lid) THEN 0
        ELSE SumSeq([k \in 1 .. Len(document.layers[p].layer.paths) |->
                        Len(document.layers[p].layer.paths[k].data)])])

\* The path of the Viewer's document a plot item was built from
PathOfSrc(src) ==
    LET p == CHOOSE q \in LayerPos : document.layers[q].lid = src[1]
    IN  document.layers[p].layer.paths[src[2]]

\* C5: with show_point on, the frame holds one marker per point of every path of every
\* visible layer (the markers of a path are the points of its one point set), each of
\* its path's colour and of radius 2 x the path's stroke width (as an f32, the type of
\* a radius); with show_point off the frame holds no marker.
C5_OneMarkerPerPoint ==
    Rendered =>
        IF show_point
        THEN /\ MarkerCount = VisiblePointCount
             /\ \A i \in 1 .. Len(PointSets) :
                    LET path == PathOfSrc(PointSets[i].src)
                    IN  /\ PointSets[i].pts = path.data
                        /\ PointSets[i].color = From_Color(path.color)
                        /\ PointSets[i].radius = AsF32(2 * path.stroke_width)
             /\ \A p \in LayerPos : \A k \in 1 .. Len(document.layers[p].layer.paths) :
                    Len(SelectSeq(PointSets,
                            LAMBDA it : it.src = <<document.layers[p].lid, k>>))
                        = IF ExplicitlyHidden(document.layers[p].lid) THEN 0 ELSE 1
        ELSE PointSets = <<>>

\* A frame with a page that shows the three markers of a path of three points whose
\* stroke width is no f32 value, while another layer is hidden
C5_Witness ==
    /\ Rendered /\ show_point /\ page_size # None
    /\ \E i \in 1 .. Len(PointSets) :
        /\ Len(PointSets[i].pts) = 3
        /\ PointSets[i].radius # 2 * PathOfSrc(PointSets[i].src).stroke_width
    /\ \E p \in LayerPos :
        /\ ExplicitlyHidden(document.layers[p].lid)
        /\ Len(document.layers[p].layer.paths) > 0

NotPoints(it) == ~IsPoints(it)

\* C6: enabling show_point and disabling it again, with no other interaction, gives a
\* frame whose items are exactly those of the frame before enabling; and the frame
\* with show_point on holds, markers apart, exactly the items of the frame before.
C6_ShowPointRoundTrip ==
    /\ [](rt.stage = "enabled" =>
            show_point /\ SelectSeq(Items, NotPoints) = rt.items)
    /\ [][(UpdateStep /\ rt'.stage = "restored") =>
            ~show_point' /\ frame_out'.items = rt.items /\ rt.stage = "enabled"]_vars

\* The frame that completes a round trip, of a document whose paths have points
C6_Witness ==
    /\ rt.stage = "restored"
    /\ \E i \in 1 .. Len(Items) : IsLine(Items[i]) /\ Len(Items[i].pts) > 0
    /\ page_size # None

\* The checkbox of the View menu at position i was clicked in the last frame
ViewClicked(i) == menu_out.menu = "View" /\ menu_out.widgets[i].clicked

\* The checkbox of layer lid was clicked in the last frame
LayerClicked(lid) ==
    /\ menu_out.menu = "Layer"
    /\ \E i \in 1 .. Len(menu_out.widgets) :
        menu_out.widgets[i].text = LayerLabel(lid) /\ menu_out.widgets[i].clicked

\* C7: a frame rendered with show_grid off has no grid line on either axis, one
\* rendered with show_grid on has the host's default grid lines; a frame that leaves
\* show_grid as it was leaves the grid lines as they were; and the frame in which
\* show_grid is toggled has the items of the frame before.
C7_GridToggle ==
    /\ [](Rendered =>
            /\ frame_out.x_grid_spacer = (IF show_grid THEN "default" ELSE "empty")
            /\ frame_out.y_grid_spacer = (IF show_grid THEN "default" ELSE "empty"))
    /\ [][(UpdateStep /\ Rendered /\ show_grid' = show_grid) =>
            /\ frame_out'.x_grid_spacer = frame_out.x_grid_spacer
            /\ frame_out'.y_grid_spacer = frame_out.y_grid_spacer]_vars
    /\ [][(UpdateStep /\ Rendered /\ show_grid' # show_grid) =>
            frame_out'.items = frame_out.items]_vars

\* The frame in which show_grid is switched off again, with items in the plot
C7_Witness ==
    /\ Rendered /\ ViewClicked(2) /\ ~show_grid
    /\ frame_out.x_grid_spacer = "empty" /\ frame_out.y_grid_spacer = "empty"
    /\ show_point /\ Len(Items) > 3

\* C8: the frame in which a checkbox is clicked already shows the new value: the
\* click on show_point decides whether that frame holds point sets, the click on
\* show_grid which grid spacers it has, the click on a layer's checkbox whether it
\* holds the lines of the layer.
C8_SameFrameEffect ==
    [][UpdateStep =>
        /\ ViewClicked(1)' =>
            /\ show_point' = ~show_point
            /\ (frame_out'.items # SelectSeq(frame_out'.items, NotPoints))
                 <=> (show_point' /\ \E p \in LayerPos :
                        /\ ~ExplicitlyHidden(document.layers[p].lid)'
                        /\ Len(document.layers[p].layer.paths) > 0)
        /\ ViewClicked(2)' =>
            /\ show_grid' = ~show_grid
            /\ frame_out'.x_grid_spacer = (IF show_grid' THEN "default" ELSE "empty")
        /\ \A p \in LayerPos :
            LayerClicked(document.layers[p].lid)' =>
                /\ layer_visibility'[document.layers[p].lid]
                     = ~IsVisible(layer_visibility, document.layers[p].lid)
                /\ Len(LinesOf(document.layers[p].lid)')
                     = IF layer_visibility'[document.layers[p].lid]
                       THEN Len(document.layers[p].layer.paths) ELSE 0]_vars

\* The frame in which show_point is switched on, which holds point sets
C8_Witness ==
    /\ ViewClicked(1) /\ show_point /\ PointSets # <<>>
    /\ rt.stage = "enabled"

\* The checkbox the Layer menu shows for the layer at position p
LayerCheckbox(p) == menu_out.widgets[p]

\* C9: a frame that shows the Layer menu shows one checkbox per layer of the document,
\* in document order, and afterwards every layer has an entry, which is true when the
\* layer had none and its checkbox was not clicked; an entry never changes unless its
\* checkbox is clicked, is never removed, and is always the entry of a document layer.
C9_LayerMenuEntries ==
    /\ [](DOMAIN layer_visibility \subseteq {document.layers[p].lid : p \in LayerPos})
    /\ [][(UpdateStep /\ menu_out'.menu = "Layer") =>
            /\ Len(menu_out'.widgets) = Len(document.layers)
            /\ \A p \in LayerPos :
                LET lid == document.layers[p].lid
                IN  /\ LayerCheckbox(p)'.text = LayerLabel(lid)
                    /\ lid \in DOMAIN layer_visibility'
                    /\ LayerCheckbox(p)'.checked = layer_visibility'[lid]
                    /\ (lid \notin DOMAIN layer_visibility /\ ~LayerCheckbox(p)'.clicked)
                        => layer_visibility'[lid] = TRUE]_vars
    /\ [][\A lid \in DOMAIN layer_visibility :
            /\ lid \in DOMAIN layer_visibility'
            /\ layer_visibility'[lid] # layer_visibility[lid]
                => (UpdateStep /\ LayerClicked(lid)')]_vars

\* The Layer menu is shown, nothing is clicked, and a layer hidden before is still hidden
C9_Witness ==
    /\ menu_out.menu = "Layer"
    /\ Len(menu_out.widgets) = 2
    /\ \A i \in 1 .. Len(menu_out.widgets) : ~menu_out.widgets[i].clicked
    /\ \E p, q \in LayerPos :
        /\ ExplicitlyHidden(document.layers[p].lid)
        /\ layer_visibility[document.layers[q].lid] = TRUE

\* C10: Document::show returns an error exactly when the session failed to start, and
\* then no Viewer was built, no frame was rendered and nothing more happens; it
\* returns Ok only once the window has closed, never while the session runs.
C10_ShowResult ==
    /\ [](/\ result = "Err" <=> phase = "failed"
          /\ result = "Err" => (~Rendered /\ document = EmptyDocument)
          /\ result = "Ok" <=> phase = "closed"
          /\ phase \in {"show", "running"} => result = "pending")
    /\ [][phase # "failed" /\ phase # "closed"]_vars

\* Document::show has returned the error of a session that did not start
C10_Witness == phase = "failed" /\ result = "Err" /\ flattened.layers # <<>>

\* The position of layer lid in the Viewer's document
PosOf(lid) == CHOOSE q \in LayerPos : document.layers[q].lid = lid

\* C11: in every frame the page-frame polygons come before every line and point set;
\* the items of the layers follow the document order of the layers and, within a
\* layer, the stored order of its paths; and the line of a path comes before the
\* point set of the same path.
C11_DrawOrder ==
    Rendered =>
        \A i, j \in 1 .. Len(Items) :
            i < j =>
                /\ IsPolygon(Items[j]) => IsPolygon(Items[i])
                /\ (~IsPolygon(Items[i]) /\ ~IsPolygon(Items[j])) =>
                    LET a == Items[i].src
                        b == Items[j].src
                    IN  /\ PosOf(a[1]) <= PosOf(b[1])
                        /\ a[1] = b[1] => a[2] <= b[2]
                        /\ a = b => (IsLine(Items[i]) /\ IsPoints(Items[j]))

\* A frame with a page, points shown, and two layers drawn, the first of the document
\* having the larger id and one of them two paths
C11_Witness ==
    /\ Rendered /\ show_point /\ page_size # None
    /\ Len(document.layers) >= 2
    /\ document.layers[1].lid > document.layers[2].lid
    /\ LinesOf(document.layers[1].lid) # <<>>
    /\ \E p \in LayerPos : Len(LinesOf(document.layers[p].lid)) >= 2

\* C12 as stated: no line is emitted after a point set
C12_AllLinesBelowAllMarkers ==
    Rendered =>
        \A i, j \in 1 .. Len(Items) :
            (i < j /\ IsPoints(Items[i])) => ~IsLine(Items[j])

\* C12, amended: the frame is the page-frame polygons followed by the paths, each path
\* being its line immediately followed, when show_point is on, by its point set; so
\* a line emitted after a point set is always the line of a later path.
C12_LineThenOwnMarkers ==
    Rendered =>
        /\ \A i \in 1 .. Len(Items) :
            /\ IsPoints(Items[i]) =>
                (i > 1 /\ IsLine(Items[i - 1]) /\ Items[i - 1].src = Items[i].src
                    /\ show_point)
            /\ (IsLine(Items[i]) /\ show_point) =>
                (i < Len(Items) /\ IsPoints(Items[i + 1]))
        /\ \A i, j \in 1 .. Len(Items) :
            (i < j /\ IsPoints(Items[i]) /\ IsLine(Items[j])) =>
                Items[i].src # Items[j].src

\* A frame with points shown in which the line of a second path follows the point set
\* of a first
C12_Witness ==
    /\ Rendered /\ show_point
    /\ \E i \in 1 .. Len(Items) :
        /\ IsPoints(Items[i])
        /\ i < Len(Items) /\ IsLine(Items[i + 1])

\* A Viewer has been built
Constructed == phase \in {"running", "closed"}

\* C13: no call of update changes the document or the page size of the Viewer, so they
\* stay what Document::show passed to Viewer::new: the flattened document with y
\* negated, point by point, with its colours and stroke widths, and self.page_size.
C13_DocumentImmutable ==
    /\ [][UpdateStep => (document' = document /\ page_size' = page_size)]_vars
    /\ [](Constructed =>
            /\ page_size = self_page_size
            /\ Keys(document) = Keys(flattened)
            /\ \A p \in LayerPos :
                /\ Len(document.layers[p].layer.paths) = Len(flattened.layers[p].layer.paths)
                /\ \A k \in 1 .. Len(document.layers[p].layer.paths) :
                    LET path == document.layers[p].layer.paths[k]
                        flat == flattened.layers[p].layer.paths[k]
                    IN  /\ path.color = flat.color
                        /\ path.stroke_width = flat.stroke_width
                        /\ Len(path.data) = Len(flat.data))

\* After frames with clicks on the View and Layer checkboxes and on Quit, the Viewer
\* still holds a document with paths and a page size
C13_Witness ==
    /\ Rendered /\ close_requested /\ show_point /\ show_grid
    /\ \E p \in LayerPos : ExplicitlyHidden(document.layers[p].lid)
    /\ \E p \in LayerPos : Len(document.layers[p].layer.paths) >= 2
    /\ page_size # None

\* C14: the Viewer gets the page size of the source document as it is, and every point
\* (x, y) of the flattened document as (x, -y); so a source point inside the page,
\* 0 <= x <= w and 0 <= y <= h, lies inside the rectangle (0,0),(w,0),(w,-h),(0,-h)
\* the renderer draws.
C14_FlipMatchesPageFrame ==
    Constructed =>
        /\ page_size = self_page_size
        /\ Len(document.layers) = Len(flattened.layers)
        /\ \A p \in LayerPos :
            \A k \in 1 .. Len(flattened.layers[p].layer.paths) :
                \A j \in 1 .. Len(flattened.layers[p].layer.paths[k].data) :
                    LET src == flattened.layers[p].layer.paths[k].data[j]
                        pt == document.layers[p].layer.paths[k].data[j]
                    IN  /\ pt = <<src[1], -src[2]>>
                        /\ (/\ self_page_size # None
                            /\ 0 <= src[1] /\ src[1] <= self_page_size.val.w
                            /\ 0 <= src[2] /\ src[2] <= self_page_size.val.h) =>
                                LET corners == PageFrame(page_size.val)
                                IN  /\ corners[1][1] <= pt[1] /\ pt[1] <= corners[2][1]
                                    /\ corners[3][2] <= pt[2] /\ pt[2] <= corners[1][2]

\* A Viewer built from a document whose points lie inside its page, below the x axis
C14_Witness ==
    /\ Constructed /\ page_size = Some([w |-> 100, h |-> 50])
    /\ \E p \in LayerPos : \E k \in 1 .. Len(document.layers[p].layer.paths) :
        LET data == document.layers[p].layer.paths[k].data
        IN  Len(data) = 3 /\ \A j \in 1 .. 3 : data[j][2] < 0 /\ data[j][1] > 0

\* The layers of which the last frame holds a line or a point set
DrawnLayers == {Items[i].src[1] : i \in {n \in 1 .. Len(Items) : ~IsPolygon(Items[n])}}

\* The layers with paths that the reference model shows
TotalShown ==
    {document.layers[p].lid :
        p \in {q \in LayerPos : /\ total_vis[document.layers[q].lid]
                                /\ Len(document.layers[q].layer.paths) > 0}}

\* No widget of the menu shown in the last frame was clicked
NothingClicked == \A i \in 1 .. Len(menu_out.widgets) : ~menu_out.widgets[i].clicked

\* C15: the lazily filled layer_visibility draws, in every frame, the layers that a
\* map total and true from construction draws under the same clicks, each with all
\* its paths; and a frame that shows the Layer menu without a click, whatever entries
\* it inserts, has the items of the frame before.
C15_LazyMapEquivalent ==
    /\ [](Rendered =>
            /\ DrawnLayers = TotalShown
            /\ \A p \in LayerPos :
                Len(LinesOf(document.layers[p].lid)) =
                    IF total_vis[document.layers[p].lid]
                    THEN Len(document.layers[p].layer.paths) ELSE 0)
    /\ [][(UpdateStep /\ Rendered /\ menu_out'.menu = "Layer" /\ NothingClicked') =>
            frame_out'.items = frame_out.items]_vars

\* A frame in which the Layer menu is shown without a click: all layers have a true
\* entry and are drawn
C15_Witness ==
    /\ Rendered /\ menu_out.menu = "Layer" /\ NothingClicked
    /\ Len(document.layers) >= 2
    /\ \A p \in LayerPos :
        /\ document.layers[p].lid \in DOMAIN layer_visibility
        /\ layer_visibility[document.layers[p].lid]
    /\ Cardinality(DrawnLayers) >= 1

\* C16: a frame in which no widget is clicked and the Layer menu is not shown changes
\* none of show_point, show_grid and layer_visibility (rendering a layer that has no
\* entry inserts none), and it emits the grid spacers and items of the frame before.
C16_RenderOnlyReads ==
    [][(UpdateStep /\ menu_out'.menu # "Layer" /\ NothingClicked') =>
        /\ show_point' = show_point
        /\ show_grid' = show_grid
        /\ layer_visibility' = layer_visibility
        /\ DOMAIN layer_visibility' = DOMAIN layer_visibility
        /\ Rendered => frame_out' = frame_out]_vars

\* A frame without interaction that draws the paths of layers that have no entry
C16_Witness ==
    /\ Rendered /\ menu_out.menu = "none"
    /\ layer_visibility = EmptyMap
    /\ show_point /\ show_grid
    /\ Cardinality(DrawnLayers) >= 2

\* The value of layer lid that a map gives, absent entries counting as visible
ValueOf(map, lid) == IF lid \in DOMAIN map THEN map[lid] ELSE TRUE

\* The Quit button was clicked in the last frame
QuitClicked == menu_out.menu = "File" /\ menu_out.widgets[1].clicked

\* C17: a click on the show_point checkbox changes show_point and nothing else, one on
\* the show_grid checkbox show_grid and nothing else; a click on the checkbox of layer
\* L changes the value of L and leaves the value of every other layer, show_point and
\* show_grid as they were; a click on Quit requests the close and changes none of
\* show_point, show_grid and layer_visibility.
C17_MenuActionFrame ==
    [][UpdateStep =>
        /\ ViewClicked(1)' =>
            /\ show_point' = ~show_point
            /\ show_grid' = show_grid /\ layer_visibility' = layer_visibility
            /\ ~close_requested'
        /\ ViewClicked(2)' =>
            /\ show_grid' = ~show_grid
            /\ show_point' = show_point /\ layer_visibility' = layer_visibility
            /\ ~close_requested'
        /\ \A p \in LayerPos :
            LayerClicked(document.layers[p].lid)' =>
                /\ show_point' = show_point /\ show_grid' = show_grid
                /\ ~close_requested'
                /\ \A q \in LayerPos :
                    LET lid == document.layers[q].lid
                    IN  ValueOf(layer_visibility', lid) =
                            IF q = p THEN ~ValueOf(layer_visibility, lid)
                            ELSE ValueOf(layer_visibility, lid)
                /\ \A lid \in DOMAIN layer_visibility :
                    lid # document.layers[p].lid =>
                        (lid \in DOMAIN layer_visibility'
                            /\ layer_visibility'[lid] = layer_visibility[lid])
        /\ QuitClicked' =>
            /\ close_requested'
            /\ show_point' = show_point /\ show_grid' = show_grid
            /\ layer_visibility' = layer_visibility]_vars

\* The frame of a click on a layer's checkbox that shows the layer again, while the
\* other layer stays hidden and both toggles stay on
C17_Witness ==
    /\ show_point /\ show_grid
    /\ \E p, q \in LayerPos :
        /\ LayerClicked(document.layers[p].lid)
        /\ layer_visibility[document.layers[p].lid]
        /\ ExplicitlyHidden(document.layers[q].lid)

\* C18: a new Viewer has show_point and show_grid false and an empty layer_visibility;
\* so the first frame, when nothing is clicked and the Layer menu is not shown, has no
\* grid line, no point set and, after the page polygons, the line of every path of
\* every layer in order.
C18_InitialViewer ==
    /\ [][(phase = "show" /\ phase' = "running") =>
            /\ show_point' = FALSE /\ show_grid' = FALSE
            /\ layer_visibility' = EmptyMap
            /\ DOMAIN layer_visibility' = {}]_vars
    /\ [][(UpdateStep /\ ~Rendered /\ menu_out'.menu # "Layer" /\ NothingClicked') =>
            /\ frame_out'.x_grid_spacer = "empty" /\ frame_out'.y_grid_spacer = "empty"
            /\ SelectSeq(frame_out'.items, IsPoints) = <<>>
            /\ \A p \in LayerPos :
                SelectSeq(frame_out'.items,
                          LAMBDA it : IsLine(it) /\ it.src[1] = document.layers[p].lid)
                    = [k \in 1 .. Len(document.layers[p].layer.paths) |-> LineFor(p, k)]]_vars

\* The state after a first frame without interaction, of a document of two layers
C18_Witness ==
    /\ Rendered /\ menu_out.menu = "none" /\ phase = "running"
    /\ ~show_point /\ ~show_grid /\ layer_visibility = EmptyMap
    /\ Len(document.layers) = 2
    /\ \E i \in 1 .. Len(Items) : IsLine(Items[i])

====
